---- MODULE Spec2Model ----
(***************************************************************************)
(* Track-metadata cache and bulk flag reconciliation of the MKV bulk track *)
(* manager (mediainfo.py, mkvdefaults.py).                                 *)
(*                                                                         *)
(* The container files on disk, the json directory (show cache and its     *)
(* backups) and the position of the interactive bulk operation are the     *)
(* state.  Every prompt answer and every outcome of the external tool is   *)
(* an input drawn with \E.                                                 *)
(***************************************************************************)
EXTENDS Integers, Sequences, FiniteSets, TLC

(* ------------------------------ bounds --------------------------------- *)

\* files in the working directory (Spec)
NumFiles == 2

\* tracks per container file of the library (Spec)
LibraryMaxTracks == 1

\* tracks of the container file (SpecPlan)
MaxTracks == 2

\* the last second of the wall clock
MaxClock == 1

\* bulk operations started in one session
MaxOps == 1

\* direct calls of the show cache in one behaviour of the cache model
MaxCalls == 3

(* --------------------------- python values ----------------------------- *)

\* Python's None (pymediainfo answers None for an attribute a track lacks,
\* json stores it as null)
None == "None"

\* s.lower().strip() on the strings the model uses
LowerStrip(s) ==
    CASE s = "ENG " -> "eng"
      [] s = "Eng" -> "eng"
      [] s = " jpn" -> "jpn"
      [] s = "Audio" -> "audio"
      [] s = "Text" -> "text"
      [] s = "Menu" -> "menu"
      [] s = "Video" -> "video"
      [] s = "General" -> "general"
      [] s = "Other" -> "other"
      [] OTHER -> s

\* (v or '')
OrEmpty(v) == IF v = None \/ v = "" THEN "" ELSE v

\* dict.get(key, default) on a record
TrackGet(track, key, default) ==
    IF key \in DOMAIN track THEN track[key] ELSE default

\* an insertion-ordered dict is a sequence of [k, v] pairs
DictHas(d, key) == \E i \in 1..Len(d) : d[i].k = key

DictGet(d, key, default) ==
    IF DictHas(d, key)
    THEN d[CHOOSE i \in 1..Len(d) : d[i].k = key].v
    ELSE default

\* d[key] = value: an existing key keeps its position, a new one is appended
DictSet(d, key, value) ==
    IF DictHas(d, key)
    THEN [i \in 1..Len(d) |-> IF d[i].k = key THEN [k |-> key, v |-> value] ELSE d[i]]
    ELSE Append(d, [k |-> key, v |-> value])

DictKeys(d) == [i \in 1..Len(d) |-> d[i].k]

EmptyDict == <<>>

(* ----------------------- the working directory ------------------------- *)

\* os.path.basename(directory)
ShowName == "Show"

AllFileNames == <<"Show.S01E01.mkv", "Show.S01E02.mkv", "Extras.mkv", "Show.S02E01.mkv", "Extra 2.mkv", "Extra 1.mkv">>

\* get_mkv_files(directory), in os.listdir order
MkvFilesOf(n) == [i \in 1..n |-> AllFileNames[i]]

SeqToSet(s) == {s[i] : i \in 1..Len(s)}

\* re.search(r'[Ss](\d+)[Ee](\d+)', file_name): <<season, episode>>, or
\* <<>> for (None, None)
extract_season_episode(file_name) ==
    CASE file_name = "Show.S01E01.mkv" -> <<1, 1>>
      [] file_name = "Show.S01E02.mkv" -> <<1, 2>>
      [] file_name = "Show.S02E01.mkv" -> <<2, 1>>
      [] file_name = "ShowA.S01E01.mkv" -> <<1, 1>>
      [] file_name = "ShowA.S01E01.720p.mkv" -> <<1, 1>>
      [] file_name = "ShowB.S01E01.mkv" -> <<1, 1>>
      [] OTHER -> <<>>

\* f"{n}" and f"{n:02}"
Str(n) == <<"0", "1", "2", "3">>[n + 1]
Str02(n) == "0" \o Str(n)

SeasonKey(season) == "Season " \o Str(season)
EpisodeKey(season, episode) == "s" \o Str02(season) \o "e" \o Str02(episode)

(* ---------------------------- json directory --------------------------- *)

\* os.path.join(JSON_DIR, f"{show_name}.json")
JsonPath(show_name) == show_name \o ".json"

\* datetime.now().strftime("%Y%m%d%H%M%S")
Timestamp(t) == <<"20240101000000", "20240101000001", "20240101000002",
                  "20240101000003">>[t + 1]

\* os.path.join(JSON_DIR, f"{show_name}_backup_{timestamp}.json")
BackupPath(show_name, t) == show_name \o "_backup_" \o Timestamp(t) \o ".json"

\* os.path.join(JSON_DIR, f"{show_name}.backup.json")
RestorePath(show_name) == show_name \o ".backup.json"

PathExists(dir, path) == path \in DOMAIN dir

\* writing a file: create or overwrite
WriteFile(dir, path, content) ==
    [p \in DOMAIN dir \cup {path} |-> IF p = path THEN content ELSE dir[p]]

\* a cache file that is not a json document
CorruptDocument == <<[k |-> "<not json>", v |-> <<>>]>>

\* json.load(file) raises on it
load_json_raises(dir, show_name) ==
    /\ PathExists(dir, JsonPath(show_name))
    /\ dir[JsonPath(show_name)] = CorruptDocument

load_json(dir, show_name) ==
    IF PathExists(dir, JsonPath(show_name))
    THEN dir[JsonPath(show_name)]
    ELSE EmptyDict

\* int(re.search(r'\d+', s).group()) if re.search(r'\d+', s) else 0
FirstNumber(s) ==
    IF \E n \in 0..3 : s = SeasonKey(n)
    THEN CHOOSE n \in 0..3 : s = SeasonKey(n)
    ELSE IF \E n, e \in 0..3 : s = EpisodeKey(n, e)
    THEN CHOOSE n \in 0..3 : \E e \in 0..3 : s = EpisodeKey(n, e)
    ELSE CASE s = "Extra 2.mkv" -> 2
           [] s = "Extra 1.mkv" -> 1
           [] s \in {"Show.S01E01.mkv", "Show.S01E02.mkv"} -> 1
           [] s \in {"ShowA.S01E01.mkv", "ShowA.S01E01.720p.mkv", "ShowB.S01E01.mkv"} -> 1
           [] s = "Show.S02E01.mkv" -> 2
           [] OTHER -> 0

\* sorted(keys, key=FirstNumber): stable insertion sort of the pairs
RECURSIVE InsertSorted(_, _)
InsertSorted(sorted, pair) ==
    IF sorted = <<>> THEN <<pair>>
    ELSE IF FirstNumber(sorted[Len(sorted)].k) <= FirstNumber(pair.k)
         THEN Append(sorted, pair)
         ELSE Append(InsertSorted(SubSeq(sorted, 1, Len(sorted) - 1), pair),
                     sorted[Len(sorted)])

RECURSIVE SortedByFirstNumber(_)
SortedByFirstNumber(d) ==
    IF d = <<>> THEN <<>>
    ELSE InsertSorted(SortedByFirstNumber(SubSeq(d, 1, Len(d) - 1)), d[Len(d)])

\* save_json leaving out the keys without a number instead of sorting them first
save_json_drops_unnumbered(dir, show_name, data) ==
    WriteFile(dir, JsonPath(show_name),
              SortedByFirstNumber(SelectSeq(data, LAMBDA pair : pair.k # "No Season")))

\* the top-level (season) keys are sorted; each season's value is written as is
save_json(dir, show_name, data) ==
    WriteFile(dir, JsonPath(show_name), SortedByFirstNumber(data))

\* the copy is made only when the show's json file exists
create_backup_json(dir, show_name, t) ==
    IF ~PathExists(dir, JsonPath(show_name))
    THEN dir
    ELSE WriteFile(dir, BackupPath(show_name, t), dir[JsonPath(show_name)])

restore_backup_json(dir, show_name) ==
    IF ~PathExists(dir, RestorePath(show_name))
    THEN dir
    ELSE WriteFile(dir, JsonPath(show_name), dir[RestorePath(show_name)])

check_backup_exists(dir, show_name) == PathExists(dir, RestorePath(show_name))

(* ---------------------------- track inspector -------------------------- *)

\* one track of the snapshot; the numeric fields are carried opaquely and
\* are left out
TrackData(track) ==
    [track_id |-> track.track_id,
     track_type |-> LowerStrip(track.track_type),
     language |-> track.language,
     title |-> track.title,
     forced |-> IF track.forced THEN "Yes" ELSE "No"]

\* every track of the file put into every group
TracksOfAnyType(tracks, type) == [i \in 1..Len(tracks) |-> TrackData(tracks[i])]

TracksOfType(tracks, type) ==
    LET kept == SelectSeq(tracks, LAMBDA t : LowerStrip(t.track_type) # "menu"
                                             /\ LowerStrip(t.track_type) = type)
    IN  [i \in 1..Len(kept) |-> TrackData(kept[i])]

gather_tracks(dsk, file_path) ==
    [general |-> TracksOfType(dsk[file_path].tracks, "general"),
     video |-> TracksOfType(dsk[file_path].tracks, "video"),
     audio |-> TracksOfType(dsk[file_path].tracks, "audio"),
     text |-> TracksOfType(dsk[file_path].tracks, "text")]

\* MediaInfo.parse(file_path) raises: the file cannot be read
ProbeRaises(dsk, file_path) ==
    "unreadable" \in DOMAIN dsk[file_path] /\ dsk[file_path].unreadable

\* tracks_info.get(track_type if track_type != 'subtitle' else 'text', [])
TracksFor(media_info, track_type) ==
    LET key == IF track_type # "subtitle" THEN track_type ELSE "text"
    IN  IF key \in DOMAIN media_info THEN media_info[key] ELSE <<>>

(* ----------------------------- show cache ------------------------------ *)

\* <<media_info>> when the entry is there, <<>> for None
check_if_media_info_exists(dir, show_name, file_name) ==
    LET se == extract_season_episode(file_name)
        show_data == load_json(dir, show_name)
    IN  IF se = <<>>
        THEN LET no_season == DictGet(show_data, "No Season", EmptyDict)
             IN  IF DictHas(no_season, file_name)
                 THEN <<DictGet(no_season, file_name, EmptyDict).media_info>>
                 ELSE <<>>
        ELSE IF DictHas(show_data, SeasonKey(se[1]))
                /\ DictHas(DictGet(show_data, SeasonKey(se[1]), EmptyDict),
                           EpisodeKey(se[1], se[2]))
             THEN <<DictGet(DictGet(show_data, SeasonKey(se[1]), EmptyDict),
                            EpisodeKey(se[1], se[2]), EmptyDict).media_info>>
             ELSE <<>>

\* update_media_info starting the season of the entry anew
update_media_info_new_season(dir, dsk, show_name, file_path) ==
    LET file_name == file_path
        se == extract_season_episode(file_name)
        show_data == load_json(dir, show_name)
        media_info == gather_tracks(dsk, file_path)
        season_key == IF se = <<>> THEN "No Season" ELSE SeasonKey(se[1])
        episode_key == IF se = <<>> THEN file_name ELSE EpisodeKey(se[1], se[2])
        entry == [filename |-> file_name, media_info |-> media_info]
    IN  save_json(dir, show_name,
                  DictSet(show_data, season_key, DictSet(EmptyDict, episode_key, entry)))

\* update_media_info keeping an entry the cache already holds
update_media_info_keeps_entry(dir, dsk, show_name, file_path) ==
    LET file_name == file_path
        se == extract_season_episode(file_name)
        show_data == load_json(dir, show_name)
        media_info == gather_tracks(dsk, file_path)
        season_key == IF se = <<>> THEN "No Season" ELSE SeasonKey(se[1])
        episode_key == IF se = <<>> THEN file_name ELSE EpisodeKey(se[1], se[2])
        season == DictGet(show_data, season_key, EmptyDict)
        entry == [filename |-> file_name, media_info |-> media_info]
    IN  save_json(dir, show_name,
                  DictSet(show_data, season_key,
                          IF DictHas(season, episode_key) THEN season
                          ELSE DictSet(season, episode_key, entry)))

\* the json directory after update_media_info(show_name, file_path); the
\* value returned is gather_tracks(dsk, file_path)
update_media_info(dir, dsk, show_name, file_path) ==
    LET file_name == file_path
        se == extract_season_episode(file_name)
        show_data == load_json(dir, show_name)
        media_info == gather_tracks(dsk, file_path)
        season_key == IF se = <<>> THEN "No Season" ELSE SeasonKey(se[1])
        episode_key == IF se = <<>> THEN file_name ELSE EpisodeKey(se[1], se[2])
        season == DictGet(show_data, season_key, EmptyDict)
        entry == [filename |-> file_name, media_info |-> media_info]
    IN  save_json(dir, show_name,
                  DictSet(show_data, season_key, DictSet(season, episode_key, entry)))

(* --------------------------- mutation executor ------------------------- *)

\* one entry of the operation's record of what it did, in program order
Event(ev, file_path, track_id, flag_name, flag_value, use_sudo, outcome) ==
    [ev |-> ev, file |-> file_path, track_id |-> track_id, flag |-> flag_name,
     value |-> flag_value, sudo |-> use_sudo, outcome |-> outcome]

\* mkvpropedit file --edit track:@id --set flag=value, when it succeeds
SetFlag(dsk, file_path, track_id, flag_name, flag_value) ==
    LET old == dsk[file_path].tracks
        new == [i \in 1..Len(old) |->
                  IF old[i].track_id # track_id THEN old[i]
                  ELSE IF flag_name = "flag-forced"
                       THEN [old[i] EXCEPT !.forced = flag_value]
                       ELSE IF flag_name = "flag-default"
                            THEN [old[i] EXCEPT !.default = flag_value]
                            ELSE old[i]]
    IN  [dsk EXCEPT ![file_path].tracks = new]

\* what one run of the external tool can answer: without sudo the exit is
\* checked (ok, the 'could not be opened for writing' error, any other
\* error); with sudo and a password the exit status is not looked at
ToolOutcomes == {"ok", "perm", "fail"}

\* modify_mkv_track without the early return of a dry run
modify_mkv_track_no_dry_return(st, file_path, track_id, flag_name, flag_value, dry_run, use_sudo, sudo_password, out) ==
    LET asked == [st EXCEPT !.raised = "",
                     !.log = Append(@, Event("request", file_path, track_id,
                                             flag_name, flag_value, use_sudo,
                                             IF dry_run THEN "dry" ELSE "live"))]
        ran == [asked EXCEPT
                  !.log = Append(@, Event("tool", file_path, track_id, flag_name,
                                          flag_value, use_sudo, out)),
                  !.disk = IF out = "ok"
                           THEN SetFlag(@, file_path, track_id, flag_name, flag_value)
                           ELSE @]
        done == IF (use_sudo /\ sudo_password \notin {None, ""}) \/ out = "ok"
                THEN [ran EXCEPT
                        !.log = Append(@, Event("set", file_path, track_id,
                                                flag_name, flag_value, use_sudo, out))]
                ELSE ran
        refreshed == [done EXCEPT
                  !.dir = update_media_info(@, ran.disk, ShowName, file_path),
                  !.log = Append(@, Event("update", file_path, None, "", FALSE,
                                          FALSE, ""))]
    IN  IF track_id = None THEN st
        ELSE IF use_sudo /\ sudo_password \notin {None, ""}
        THEN done
        ELSE IF out = "perm"
        THEN [ran EXCEPT !.raised = "PermissionError"]
        ELSE IF ~dry_run /\ ~use_sudo THEN refreshed ELSE done

\* modify_mkv_track returning without the call of update_media_info
modify_mkv_track_no_refresh(st, file_path, track_id, flag_name, flag_value, dry_run, use_sudo, sudo_password, out) ==
    LET asked == [st EXCEPT !.raised = "",
                     !.log = Append(@, Event("request", file_path, track_id,
                                             flag_name, flag_value, use_sudo,
                                             IF dry_run THEN "dry" ELSE "live"))]
        ran == [asked EXCEPT
                  !.log = Append(@, Event("tool", file_path, track_id, flag_name,
                                          flag_value, use_sudo, out)),
                  !.disk = IF out = "ok"
                           THEN SetFlag(@, file_path, track_id, flag_name, flag_value)
                           ELSE @]
        done == IF (use_sudo /\ sudo_password \notin {None, ""}) \/ out = "ok"
                THEN [ran EXCEPT
                        !.log = Append(@, Event("set", file_path, track_id,
                                                flag_name, flag_value, use_sudo, out))]
                ELSE ran
        refreshed == [done EXCEPT
                  !.dir = update_media_info(@, ran.disk, ShowName, file_path),
                  !.log = Append(@, Event("update", file_path, None, "", FALSE,
                                          FALSE, ""))]
    IN  IF track_id = None THEN st
        ELSE IF dry_run
        THEN [asked EXCEPT !.log = Append(@, Event("would", file_path, track_id,
                                                   flag_name, flag_value,
                                                   use_sudo, ""))]
        ELSE IF use_sudo /\ sudo_password \notin {None, ""}
        THEN done
        ELSE IF out = "perm"
        THEN [ran EXCEPT !.raised = "PermissionError"]
        ELSE done

\* modify_mkv_track raising PermissionError on every failure of the tool
modify_mkv_track_any_failure_raises(st, file_path, track_id, flag_name, flag_value, dry_run, use_sudo, sudo_password, out) ==
    LET asked == [st EXCEPT !.raised = "",
                     !.log = Append(@, Event("request", file_path, track_id,
                                             flag_name, flag_value, use_sudo,
                                             IF dry_run THEN "dry" ELSE "live"))]
        ran == [asked EXCEPT
                  !.log = Append(@, Event("tool", file_path, track_id, flag_name,
                                          flag_value, use_sudo, out)),
                  !.disk = IF out = "ok"
                           THEN SetFlag(@, file_path, track_id, flag_name, flag_value)
                           ELSE @]
        done == IF (use_sudo /\ sudo_password \notin {None, ""}) \/ out = "ok"
                THEN [ran EXCEPT
                        !.log = Append(@, Event("set", file_path, track_id,
                                                flag_name, flag_value, use_sudo, out))]
                ELSE ran
        refreshed == [done EXCEPT
                  !.dir = update_media_info(@, ran.disk, ShowName, file_path),
                  !.log = Append(@, Event("update", file_path, None, "", FALSE,
                                          FALSE, ""))]
    IN  IF track_id = None THEN st
        ELSE IF dry_run
        THEN [asked EXCEPT !.log = Append(@, Event("would", file_path, track_id,
                                                   flag_name, flag_value,
                                                   use_sudo, ""))]
        ELSE IF use_sudo /\ sudo_password \notin {None, ""}
        THEN done
        ELSE IF out \in {"perm", "fail"}
        THEN [ran EXCEPT !.raised = "PermissionError"]
        ELSE IF ~use_sudo THEN refreshed ELSE done

\* st = [disk, dir, log, raised]: the files, the json directory, the record
\* of events and the exception leaving the call ("" for a normal return).
\* The "set" event is the report 'Track ID ... set to ...' of line 75.
modify_mkv_track(st, file_path, track_id, flag_name, flag_value, dry_run, use_sudo, sudo_password, out) ==
    LET asked == [st EXCEPT !.raised = "",
                     !.log = Append(@, Event("request", file_path, track_id,
                                             flag_name, flag_value, use_sudo,
                                             IF dry_run THEN "dry" ELSE "live"))]
        ran == [asked EXCEPT
                  !.log = Append(@, Event("tool", file_path, track_id, flag_name,
                                          flag_value, use_sudo, out)),
                  !.disk = IF out = "ok"
                           THEN SetFlag(@, file_path, track_id, flag_name, flag_value)
                           ELSE @]
        done == IF (use_sudo /\ sudo_password \notin {None, ""}) \/ out = "ok"
                THEN [ran EXCEPT
                        !.log = Append(@, Event("set", file_path, track_id,
                                                flag_name, flag_value, use_sudo, out))]
                ELSE ran
        refreshed == [done EXCEPT
                  !.dir = update_media_info(@, ran.disk, ShowName, file_path),
                  !.log = Append(@, Event("update", file_path, None, "", FALSE,
                                          FALSE, ""))]
    IN  IF track_id = None THEN st
        ELSE IF dry_run
        THEN [asked EXCEPT !.log = Append(@, Event("would", file_path, track_id,
                                                   flag_name, flag_value,
                                                   use_sudo, ""))]
        ELSE IF use_sudo /\ sudo_password \notin {None, ""}
        THEN done
        ELSE IF out = "perm"
        THEN [ran EXCEPT !.raised = "PermissionError"]
        ELSE IF ~use_sudo THEN refreshed ELSE done

(* ---------------------- flag reconciliation planner -------------------- *)

\* .lower() on None raises AttributeError
LanguageRaises(track, selected_track_info) ==
    \/ TrackGet(track, "language", "und") = None
    \/ selected_track_info.language = None

LanguageMatches(track, selected_track_info) ==
    LowerStrip(TrackGet(track, "language", "und"))
        = LowerStrip(selected_track_info.language)

is_selected_track(track, selected_track_info) ==
    /\ LanguageMatches(track, selected_track_info)
    /\ LowerStrip(OrEmpty(TrackGet(track, "title", None)))
           = LowerStrip(selected_track_info.title)

\* evaluating is_selected_track raises
SelectedRaises(track, selected_track_info) ==
    \/ LanguageRaises(track, selected_track_info)
    \/ /\ LanguageMatches(track, selected_track_info)
       /\ selected_track_info.title = None

\* desired_flag: True/False for the two flags, None for any other name
DesiredKnown(flag_name) == flag_name \in {"flag-forced", "flag-default"}

\* current_flag = track.get(flag_name, False)
current_flag(track, flag_name) == TrackGet(track, flag_name, FALSE)

\* the answers drawn for one planned entry: the tool's exit and, after a
\* permission error without sudo, the answer to the sudo prompt and the exit
\* of the retry
EntryAnswers(dry_run, use_sudo) ==
    IF dry_run THEN {"ok"}
    ELSE IF use_sudo THEN {"ok", "fail"}
    ELSE {"ok", "fail", "perm_n", "perm_y_ok", "perm_y_fail"}

FirstOutcome(answer) ==
    IF answer \in {"perm_n", "perm_y_ok", "perm_y_fail"} THEN "perm" ELSE answer

\* the loop body with a track's position standing in for a missing track_id
RECURSIVE ModifyTracksPositionForId(_, _, _, _, _, _, _, _, _, _)
ModifyTracksPositionForId(st, file_path, tracks, i, selected_track_info, flag_name, dry_run, use_sudo, sudo_password, answers) ==
    IF i > Len(tracks) THEN st
    ELSE
    LET track == tracks[i]
        track_id == IF TrackGet(track, "track_id", None) = None
                    THEN Str(i)
                    ELSE TrackGet(track, "track_id", None)
        rest(s) == ModifyTracksPositionForId(s, file_path, tracks, i + 1, selected_track_info,
                                flag_name, dry_run, use_sudo, sudo_password, answers)
        desired_flag == is_selected_track(track, selected_track_info)
        first == modify_mkv_track(st, file_path, track_id, flag_name, desired_flag,
                                  dry_run, use_sudo, sudo_password,
                                  FirstOutcome(answers[i]))
        prompted == [first EXCEPT !.raised = "",
                        !.log = Append(@, Event("prompt", file_path, track_id,
                                                flag_name, desired_flag, FALSE,
                                                IF answers[i] = "perm_n"
                                                THEN "n" ELSE "y"))]
        retried == modify_mkv_track(prompted, file_path, track_id, flag_name,
                                    desired_flag, dry_run, TRUE, "pw",
                                    IF answers[i] = "perm_y_ok" THEN "ok" ELSE "fail")
    IN  IF track_id = None THEN rest(st)
        ELSE IF SelectedRaises(track, selected_track_info)
        THEN [st EXCEPT !.raised = "AttributeError"]
        ELSE IF ~DesiredKnown(flag_name) THEN rest(st)
        ELSE IF current_flag(track, flag_name) = desired_flag THEN rest(st)
        ELSE IF first.raised # "PermissionError" THEN rest(first)
        ELSE IF use_sudo THEN rest([first EXCEPT !.raised = ""])
        ELSE IF answers[i] = "perm_n" THEN rest(prompted)
        ELSE rest([retried EXCEPT !.raised = ""])

\* the loop body of bulk_modify_files for tracks[i..]; an exception other
\* than the PermissionError of modify_mkv_track ends the file
RECURSIVE ModifyTracks(_, _, _, _, _, _, _, _, _, _)
ModifyTracks(st, file_path, tracks, i, selected_track_info, flag_name, dry_run, use_sudo, sudo_password, answers) ==
    IF i > Len(tracks) THEN st
    ELSE
    LET track == tracks[i]
        track_id == TrackGet(track, "track_id", None)
        rest(s) == ModifyTracks(s, file_path, tracks, i + 1, selected_track_info,
                                flag_name, dry_run, use_sudo, sudo_password, answers)
        desired_flag == is_selected_track(track, selected_track_info)
        first == modify_mkv_track(st, file_path, track_id, flag_name, desired_flag,
                                  dry_run, use_sudo, sudo_password,
                                  FirstOutcome(answers[i]))
        prompted == [first EXCEPT !.raised = "",
                        !.log = Append(@, Event("prompt", file_path, track_id,
                                                flag_name, desired_flag, FALSE,
                                                IF answers[i] = "perm_n"
                                                THEN "n" ELSE "y"))]
        retried == modify_mkv_track(prompted, file_path, track_id, flag_name,
                                    desired_flag, dry_run, TRUE, "pw",
                                    IF answers[i] = "perm_y_ok" THEN "ok" ELSE "fail")
    IN  IF track_id = None THEN rest(st)
        ELSE IF SelectedRaises(track, selected_track_info)
        THEN [st EXCEPT !.raised = "AttributeError"]
        ELSE IF ~DesiredKnown(flag_name) THEN rest(st)
        ELSE IF current_flag(track, flag_name) = desired_flag THEN rest(st)
        ELSE IF first.raised # "PermissionError" THEN rest(first)
        ELSE IF use_sudo THEN rest([first EXCEPT !.raised = ""])
        ELSE IF answers[i] = "perm_n" THEN rest(prompted)
        ELSE rest([retried EXCEPT !.raised = ""])

\* the iteration without its except clauses: an exception leaves the loop
BulkModifyFileUnguarded(st, file_path, selected_track_info, track_type, flag_name, dry_run, use_sudo, sudo_password, answers) ==
    LET visited == [st EXCEPT
                      !.raised = "",
                      !.log = Append(Append(@,
                                  Event("visit", file_path, None, flag_name, FALSE,
                                        use_sudo, "")),
                                  Event("update", file_path, None, "", FALSE,
                                        FALSE, "")),
                      !.dir = update_media_info(@, st.disk, ShowName, file_path)]
    IN  ModifyTracks(visited, file_path,
                     TracksFor(gather_tracks(st.disk, file_path), track_type), 1,
                     selected_track_info, flag_name, dry_run, use_sudo,
                     sudo_password, answers)

\* one iteration of the file loop of bulk_modify_files: every exception is
\* caught by the handlers of the iteration
BulkModifyFile(st, file_path, selected_track_info, track_type, flag_name, dry_run, use_sudo, sudo_password, answers) ==
    LET visited == [st EXCEPT
                      !.raised = "",
                      !.log = Append(Append(@,
                                  Event("visit", file_path, None, flag_name, FALSE,
                                        use_sudo, "")),
                                  Event("update", file_path, None, "", FALSE,
                                        FALSE, "")),
                      !.dir = update_media_info(@, st.disk, ShowName, file_path)]
        tracks == TracksFor(gather_tracks(st.disk, file_path), track_type)
        done == ModifyTracks(visited, file_path, tracks, 1, selected_track_info,
                             flag_name, dry_run, use_sudo, sudo_password, answers)
    IN  IF load_json_raises(st.dir, ShowName)
        THEN [st EXCEPT
                !.raised = "",
                !.log = Append(Append(@,
                            Event("visit", file_path, None, flag_name, FALSE,
                                  use_sudo, "")),
                            Event("error", file_path, None, flag_name, FALSE,
                                  use_sudo, "JSONDecodeError"))]
        ELSE IF ProbeRaises(st.disk, file_path)
        THEN [st EXCEPT
                !.raised = "",
                !.log = Append(Append(@,
                            Event("visit", file_path, None, flag_name, FALSE,
                                  use_sudo, "")),
                            Event("error", file_path, None, flag_name, FALSE,
                                  use_sudo, "ProbeError"))]
        ELSE IF done.raised = ""
        THEN done
        ELSE [done EXCEPT !.raised = "",
                 !.log = Append(@, Event("error", file_path, None, flag_name,
                                         FALSE, use_sudo, done.raised))]

(* -------------------------- track identity grouper --------------------- *)

\* the tracks of one file as the scans read them: from the cache when the
\* entry is there, from the inspector otherwise
ScanTracks(dir, dsk, file_name, track_type) ==
    LET media_info == check_if_media_info_exists(dir, ShowName, file_name)
    IN  IF media_info # <<>>
        THEN TracksFor(media_info[1], track_type)
        ELSE TracksFor(gather_tracks(dsk, file_name), track_type)

\* a scan raises on a file it has to inspect and cannot: the call of
\* gather_tracks is outside of any try
ScanRaises(dir, dsk, file_name) ==
    /\ check_if_media_info_exists(dir, ShowName, file_name) = <<>>
    /\ ProbeRaises(dsk, file_name)

\* key = (language, title) of the collecting scan
TrackKey(track) ==
    <<LowerStrip(OrEmpty(TrackGet(track, "language", "und"))),
      LowerStrip(OrEmpty(TrackGet(track, "title", None)))>>

\* the inner loop of the collecting scan over the tracks of one file
RECURSIVE CountTracks(_, _, _)
CountTracks(unique_tracks, tracks, i) ==
    IF i > Len(tracks) THEN unique_tracks
    ELSE LET key == TrackKey(tracks[i])
             seen == DictGet(unique_tracks, key, EmptyDict)
             next == IF ~DictHas(unique_tracks, key)
                     THEN DictSet(unique_tracks, key,
                                  [language |-> TrackGet(tracks[i], "language", "und"),
                                   title |-> TrackGet(tracks[i], "title", ""),
                                   count |-> 1])
                     ELSE DictSet(unique_tracks, key,
                                  [seen EXCEPT !.count = @ + 1])
         IN  CountTracks(next, tracks, i + 1)

\* the collecting scan with unique_tracks emptied for every file
RECURSIVE CollectUniqueResetPerFile(_, _, _, _, _, _)
CollectUniqueResetPerFile(unique_tracks, dir, dsk, mkv_files, n, track_type) ==
    IF n > Len(mkv_files) THEN unique_tracks
    ELSE CollectUniqueResetPerFile(
             CountTracks(EmptyDict,
                         ScanTracks(dir, dsk, mkv_files[n], track_type), 1),
             dir, dsk, mkv_files, n + 1, track_type)

\* the collecting scan over mkv_files[n..]
RECURSIVE CollectUnique(_, _, _, _, _, _)
CollectUnique(unique_tracks, dir, dsk, mkv_files, n, track_type) ==
    IF n > Len(mkv_files) THEN unique_tracks
    ELSE CollectUnique(
             CountTracks(unique_tracks,
                         ScanTracks(dir, dsk, mkv_files[n], track_type), 1),
             dir, dsk, mkv_files, n + 1, track_type)

\* list(unique_tracks.values())
DictValues(d) == [i \in 1..Len(d) |-> d[i].v]

\* the test of the partition scan on one track
PartitionLanguageMatches(track, selected_track_info) ==
    LowerStrip(OrEmpty(TrackGet(track, "language", "und")))
        = LowerStrip(selected_track_info.language)

PartitionMatches(track, selected_track_info) ==
    /\ PartitionLanguageMatches(track, selected_track_info)
    /\ LowerStrip(OrEmpty(TrackGet(track, "title", None)))
           = LowerStrip(selected_track_info.title)

\* .lower() on a None language or title of the selection raises
PartitionRaises(track, selected_track_info) ==
    \/ selected_track_info.language = None
    \/ /\ PartitionLanguageMatches(track, selected_track_info)
       /\ selected_track_info.title = None

\* any(...) over tracks[i..]: "True", "False" or "raise"
RECURSIVE has_track(_, _, _)
has_track(tracks, i, selected_track_info) ==
    IF i > Len(tracks) THEN "False"
    ELSE IF PartitionRaises(tracks[i], selected_track_info) THEN "raise"
    ELSE IF PartitionMatches(tracks[i], selected_track_info) THEN "True"
    ELSE has_track(tracks, i + 1, selected_track_info)

FileHasTrack(dir, dsk, file_name, track_type, selected_track_info) ==
    has_track(ScanTracks(dir, dsk, file_name, track_type), 1, selected_track_info)

\* os.access(file_path, os.W_OK)
has_write_permission(dsk, file_path) == dsk[file_path].writable

(* ------------------------------- state --------------------------------- *)

VARIABLES
    disk,                 \* file name -> [writable, tracks]: the containers
    jsonDir,              \* path -> document: the files of the json directory
    now,                  \* the wall clock, in seconds
    pc,                   \* the prompt the session waits at
    op,                   \* [kind, track_type, mode] of the bulk operation
    unique_tracks_list,
    selected_track_info,
    files_with_track,
    files_without_track,
    files_requiring_sudo,
    sudo_password_input,
    submitted,            \* the file lists handed to bulk_modify_files
    queue,                \* the part of them still to be processed
    log,                  \* what the operation did so far, in program order
    diskAtStart,          \* the containers when the operation started
    jsonDirAtStart,       \* the json directory when the operation started
    last_call,            \* the last call made to the show cache directly
    callers,              \* the menus waiting for the current one to return
    nav,                  \* the locals of the calls of navigate_and_browse
    ended,                \* how the last operation returned
    opsStarted

\* no call yet
NoCall == [call |-> "none"]

\* the configured media directory, a path from the root
MediaDirectory == <<"media", "shows">>

\* os.path.dirname(path) of an absolute path; the root is its own parent
dirname(path) == IF path = <<>> THEN <<>> ELSE SubSeq(path, 1, Len(path) - 1)

\* the locals of navigate_and_browse(current_directory) at its first prompt
NavigateFrame(current_directory) ==
    [current_directory |-> current_directory,
     previous_directory |-> dirname(current_directory)]

vars == <<disk, jsonDir, now, pc, op, unique_tracks_list, selected_track_info,
          files_with_track, files_without_track, files_requiring_sudo,
          sudo_password_input, submitted, queue, log, diskAtStart,
          jsonDirAtStart, last_call, callers, nav, ended, opsStarted>>

opLocals == <<op, unique_tracks_list, selected_track_info, files_with_track,
              files_without_track, files_requiring_sudo, sudo_password_input,
              submitted, queue, log, diskAtStart, jsonDirAtStart>>

\* get_mkv_files(directory)
mkv_files == SelectSeq(AllFileNames, LAMBDA f : f \in DOMAIN disk)

\* the ids the track at position i may have: its number, or none at all
\* when ids may be absent
WithId(i) == {Str(i)}
MaybeId(i) == {Str(i), None}

\* the track lists of n tracks
TrackLists(n, id_optional, Types, Languages, Titles, Flags) ==
    {t \in [1..n -> [track_id : UNION {MaybeId(i) : i \in 1..n}, track_type : Types,
                     language : Languages, title : Titles,
                     forced : Flags, default : Flags]] :
        \A i \in 1..n :
            t[i].track_id \in (IF id_optional THEN MaybeId(i) ELSE WithId(i))}

\* the containers of the library: a few audio tracks each, no flag set yet
LibraryTracks ==
    UNION {TrackLists(n, FALSE, {"Audio"}, {"eng", "jpn"}, {""}, {FALSE}) :
               n \in 1..LibraryMaxTracks}

\* the json directory may hold a <show>.backup.json left there earlier
LegacyDirs == {<<>>, [p \in {RestorePath(ShowName)} |-> EmptyDict]}

InitSession ==
    /\ now = 0
    /\ pc = "menu"
    /\ op = [kind |-> "", track_type |-> "", mode |-> ""]
    /\ unique_tracks_list = <<>>
    /\ selected_track_info = [language |-> "", title |-> ""]
    /\ files_with_track = <<>>
    /\ files_without_track = <<>>
    /\ files_requiring_sudo = <<>>
    /\ sudo_password_input = None
    /\ submitted = <<>>
    /\ queue = <<>>
    /\ log = <<>>
    /\ diskAtStart = disk
    /\ jsonDirAtStart = jsonDir
    /\ last_call = NoCall
    /\ callers = <<"main_menu", "browse">>
    /\ nav = <<NavigateFrame(MediaDirectory)>>
    /\ ended = ""
    /\ opsStarted = 0

Init ==
    /\ disk \in [SeqToSet(MkvFilesOf(NumFiles)) ->
                    [writable : BOOLEAN, tracks : LibraryTracks]]
    /\ jsonDir \in LegacyDirs
    /\ InitSession

(* ------------------------ bulk operation: prompts ---------------------- *)

Kinds == {"forced", "default", "both"}

\* the flag the three bulk functions hand to bulk_modify_files
FlagOf(kind) ==
    IF kind = "default" THEN "flag-default" ELSE "flag-forced"

\* the function prompting for an option again where it returns
ReturnToOptions(how) ==
    /\ pc' = "options"
    /\ ended' = how

Return(how) ==
    /\ pc' = "menu"
    /\ ended' = how

\* menu options 1-4, 9, 10 of work_in_current_directory: the function runs
\* its collecting scan and stops at the track-selection prompt
StartBulk(kind, track_type) ==
    /\ pc = "menu"
    /\ opsStarted < MaxOps
    /\ opsStarted' = opsStarted + 1
    /\ op' = [kind |-> kind, track_type |-> track_type, mode |-> ""]
    /\ IF load_json_raises(jsonDir, ShowName) /\ mkv_files # <<>>
       THEN /\ unique_tracks_list' = <<>>
            /\ pc' = "crashed"
            /\ ended' = "JSONDecodeError"
       ELSE IF \E n \in 1..Len(mkv_files) : ScanRaises(jsonDir, disk, mkv_files[n])
       THEN /\ unique_tracks_list' = <<>>
            /\ pc' = "crashed"
            /\ ended' = "ProbeError"
       ELSE LET unique_tracks == CollectUnique(EmptyDict, jsonDir, disk, mkv_files,
                                               1, track_type)
            IN  /\ unique_tracks_list' = DictValues(unique_tracks)
                /\ IF unique_tracks = EmptyDict
                   THEN Return("no_tracks")
                   ELSE pc' = "select" /\ ended' = ""
    /\ selected_track_info' = [language |-> "", title |-> ""]
    /\ files_with_track' = <<>>
    /\ files_without_track' = <<>>
    /\ files_requiring_sudo' = <<>>
    /\ sudo_password_input' = None
    /\ submitted' = <<>>
    /\ queue' = <<>>
    /\ log' = <<>>
    /\ diskAtStart' = disk
    /\ jsonDirAtStart' = jsonDir
    /\ UNCHANGED <<disk, jsonDir, now, last_call, callers, nav>>

\* the files of mkv_files whose partition test answers `answer`
Partition(answer, sel) ==
    SelectSeq(mkv_files,
              LAMBDA f : FileHasTrack(jsonDir, disk, f, op.track_type, sel) = answer)

\* the answer to the track-selection prompt: 0 cancels, 1..n selects and the
\* function goes on to the partition scan and the write-permission check
Select(selection) ==
    /\ pc = "select"
    /\ selection \in 0..Len(unique_tracks_list)
    /\ IF selection = 0
       THEN /\ Return("cancelled")
            /\ UNCHANGED <<selected_track_info, files_with_track,
                           files_without_track, files_requiring_sudo>>
       ELSE LET sel == [language |-> unique_tracks_list[selection].language,
                        title |-> unique_tracks_list[selection].title]
                with == Partition("True", sel)
            IN  /\ selected_track_info' = sel
                /\ IF load_json_raises(jsonDir, ShowName) /\ mkv_files # <<>>
                   THEN /\ pc' = "crashed"
                        /\ ended' = "JSONDecodeError"
                        /\ UNCHANGED <<files_with_track, files_without_track,
                                       files_requiring_sudo>>
                   ELSE IF \E n \in 1..Len(mkv_files) :
                          ScanRaises(jsonDir, disk, mkv_files[n])
                   THEN /\ pc' = "crashed"
                        /\ ended' = "ProbeError"
                        /\ UNCHANGED <<files_with_track, files_without_track,
                                       files_requiring_sudo>>
                   ELSE IF Partition("raise", sel) # <<>>
                   THEN /\ pc' = "crashed"
                        /\ ended' = "AttributeError"
                        /\ UNCHANGED <<files_with_track, files_without_track,
                                       files_requiring_sudo>>
                   ELSE /\ files_with_track' = with
                        /\ files_without_track' = Partition("False", sel)
                        /\ files_requiring_sudo' =
                               SelectSeq(with,
                                   LAMBDA f : ~has_write_permission(disk, f))
                        /\ ended' = ""
                        /\ pc' = IF files_requiring_sudo' # <<>>
                                 THEN "sudo_prompt" ELSE "options"
    /\ UNCHANGED <<disk, jsonDir, now, op, unique_tracks_list,
                   sudo_password_input, submitted, queue, log, diskAtStart, jsonDirAtStart,
                   opsStarted, last_call, callers, nav>>

\* the answer to 'provide a sudo password?': y reads the password, anything
\* else drops the files that are not writable
AnswerSudo(response, password) ==
    /\ pc = "sudo_prompt"
    /\ IF response = "y"
       THEN /\ sudo_password_input' = password
            /\ pc' = "options"
            /\ UNCHANGED <<files_with_track, ended>>
       ELSE /\ password = ""
            /\ files_with_track' =
                   SelectSeq(files_with_track,
                             LAMBDA f : has_write_permission(disk, f))
            /\ IF files_with_track' = <<>>
               THEN Return("no_writable")
               ELSE pc' = "options" /\ UNCHANGED ended
            /\ UNCHANGED sudo_password_input
    /\ UNCHANGED <<disk, jsonDir, now, op, unique_tracks_list,
                   selected_track_info, files_without_track,
                   files_requiring_sudo, submitted, queue, log, diskAtStart, jsonDirAtStart,
                   opsStarted, last_call, callers, nav>>

Job(file_path, use_sudo) == [file |-> file_path, sudo |-> use_sudo]

JobsOf(files, use_sudo) == [i \in 1..Len(files) |-> Job(files[i], use_sudo)]

\* option 1 handing every file of the directory to bulk_modify_files
DryRunJobsAllFiles == JobsOf(mkv_files, FALSE)

\* option 1: bulk_modify_files(files_with_track, dry_run=True)
DryRunJobs == JobsOf(files_with_track, FALSE)

\* option 2 handing every file with the track to the run without sudo
ExecuteJobsUnelevated == JobsOf(files_with_track, FALSE)

\* option 2: the writable files without sudo, then the files that were not
\* writable with sudo when a password was given
ExecuteJobs ==
    JobsOf(SelectSeq(files_with_track, LAMBDA f : has_write_permission(disk, f)),
           FALSE)
    \o (IF sudo_password_input \notin {None, ""} /\ files_requiring_sudo # <<>>
        THEN JobsOf(files_requiring_sudo, TRUE)
        ELSE <<>>)

Begin(mode, jobs) ==
    /\ op' = [op EXCEPT !.mode = mode]
    /\ submitted' = jobs
    /\ queue' = jobs
    /\ IF jobs = <<>> THEN Return(mode) ELSE pc' = "running" /\ UNCHANGED ended

\* option 1 of the options prompt
ChooseDryRun ==
    /\ pc = "options"
    /\ Begin("dry_run", DryRunJobs)
    /\ UNCHANGED <<disk, jsonDir, now, unique_tracks_list, selected_track_info,
                   files_with_track, files_without_track, files_requiring_sudo,
                   sudo_password_input, log, diskAtStart, jsonDirAtStart, opsStarted, last_call, callers, nav>>

\* option 2 without the call of create_backup_json
ChooseExecuteNoBackup(t) ==
    /\ pc = "options"
    /\ t \in now..MaxClock
    /\ t <= now + 1
    /\ now' = t
    /\ Begin("execute", ExecuteJobs)
    /\ UNCHANGED <<disk, jsonDir, log, unique_tracks_list, selected_track_info,
                   files_with_track, files_without_track, files_requiring_sudo,
                   sudo_password_input, diskAtStart, jsonDirAtStart, opsStarted, last_call, callers, nav>>

\* option 2 of the options prompt: the backup, then the live run
ChooseExecute(t) ==
    /\ pc = "options"
    /\ t \in now..MaxClock
    /\ t <= now + 1
    /\ now' = t
    /\ jsonDir' = create_backup_json(jsonDir, ShowName, t)
    /\ log' = Append(log, Event("backup", "", None, "", FALSE, FALSE,
                                IF jsonDir' = jsonDir THEN "none" ELSE "copied"))
    /\ Begin("execute", ExecuteJobs)
    /\ UNCHANGED <<disk, unique_tracks_list, selected_track_info,
                   files_with_track, files_without_track, files_requiring_sudo,
                   sudo_password_input, diskAtStart, jsonDirAtStart, opsStarted, last_call, callers, nav>>

\* options 3 and 4 with the backup made before the option is looked at
ChooseReturnAfterBackup(option) ==
    /\ pc = "options"
    /\ Return(IF option = "4" THEN "returned_main" ELSE "returned")
    /\ jsonDir' = create_backup_json(jsonDir, ShowName, now)
    /\ log' = Append(log, Event("backup", "", None, "", FALSE, FALSE,
                                IF jsonDir' = jsonDir THEN "none" ELSE "copied"))
    /\ UNCHANGED <<disk, now, op, unique_tracks_list, selected_track_info,
                   files_with_track, files_without_track, files_requiring_sudo,
                   sudo_password_input, submitted, queue, diskAtStart,
                   jsonDirAtStart, opsStarted, last_call, callers, nav>>

\* options 3 ('Return to Previous Menu') and 4 ('Return to Main Menu') of
\* the options prompt: both are a bare return
ChooseReturn(option) ==
    /\ pc = "options"
    /\ Return(IF option = "4" THEN "returned_main" ELSE "returned")
    /\ UNCHANGED <<disk, jsonDir, now, opLocals, opsStarted, last_call, callers, nav>>

(* ------------------------ bulk operation: the run ---------------------- *)

\* the next iteration of the file loop of bulk_modify_files, with the
\* answers of the tool and of the user drawn from EntryAnswers, or every run
\* of the tool succeeding when all_ok. An exception leaving the iteration
\* would leave bulk_modify_files and end the run.
ProcessFile(all_ok) ==
    /\ pc = "running"
    /\ queue # <<>>
    /\ LET job == Head(queue)
           dry_run == op.mode = "dry_run"
           slots == 1..Len(TracksFor(gather_tracks(disk, job.file), op.track_type))
       IN  \E answers \in [slots -> IF all_ok THEN {"ok"}
                                      ELSE EntryAnswers(dry_run, job.sudo)] :
               LET st == BulkModifyFile(
                             [disk |-> disk, dir |-> jsonDir, log |-> log,
                              raised |-> ""],
                             job.file, selected_track_info, op.track_type,
                             FlagOf(op.kind), dry_run, job.sudo,
                             IF job.sudo THEN sudo_password_input ELSE None,
                             answers)
               IN  /\ disk' = st.disk
                   /\ jsonDir' = st.dir
                   /\ log' = st.log
                   /\ IF st.raised # ""
                      THEN queue' = <<>> /\ Return(st.raised)
                      ELSE /\ queue' = Tail(queue)
                           /\ IF queue' = <<>>
                              THEN Return(op.mode)
                              ELSE UNCHANGED <<pc, ended>>
    /\ UNCHANGED <<now, op, unique_tracks_list, selected_track_info,
                   files_with_track, files_without_track, files_requiring_sudo,
                   sudo_password_input, submitted, diskAtStart, jsonDirAtStart, opsStarted, last_call, callers, nav>>

RunFile == ProcessFile(FALSE)

(* --------------------------- single-file flows ------------------------- *)

\* the flags the three single-file functions set, in the order of their calls
SingleFlags(kind) ==
    IF kind = "both" THEN <<"flag-default", "flag-forced">>
    ELSE <<FlagOf(kind)>>

\* the calls for the selected track: flag to True unless the snapshot says
\* it is set already
SelectedCalls(selected_track, flags) ==
    LET wanted == SelectSeq(flags, LAMBDA fl : ~TrackGet(selected_track, fl, FALSE))
    IN  [k \in 1..Len(wanted) |->
            [track_id |-> selected_track.track_id, flag |-> wanted[k], value |-> TRUE]]

\* the calls of the loop over the other tracks, tracks[i..]: flag to False
\* for a track with another id that the snapshot says holds the flag
RECURSIVE OtherCalls(_, _, _, _)
OtherCalls(tracks, i, track_id, flags) ==
    IF i > Len(tracks) THEN <<>>
    ELSE LET held == SelectSeq(flags, LAMBDA fl :
                         /\ TrackGet(tracks[i], "track_id", None) # track_id
                         /\ TrackGet(tracks[i], fl, FALSE))
         IN  [k \in 1..Len(held) |->
                 [track_id |-> TrackGet(tracks[i], "track_id", None),
                  flag |-> held[k], value |-> FALSE]]
             \o OtherCalls(tracks, i + 1, track_id, flags)

\* the calls of modify_mkv_track made one after the other; an exception
\* ends them and is caught by the function's except clause
RECURSIVE RunCalls(_, _, _, _, _)
RunCalls(st, file_path, calls, k, answers) ==
    IF k > Len(calls) THEN st
    ELSE LET after == modify_mkv_track(st, file_path, calls[k].track_id,
                                       calls[k].flag, calls[k].value, FALSE,
                                       FALSE, None, answers[k])
         IN  IF after.raised # ""
             THEN [after EXCEPT !.raised = "",
                      !.log = Append(@, Event("error", file_path, None,
                                              calls[k].flag, FALSE, FALSE,
                                              after.raised))]
             ELSE RunCalls(after, file_path, calls, k + 1, answers)

\* menu options 5-8, 11, 12: select_and_edit_single_file and its two
\* variants, from the file prompt to the return
SingleFile(kind, track_type, selection, track_selection) ==
    /\ pc = "menu"
    /\ opsStarted < MaxOps
    /\ opsStarted' = opsStarted + 1
    /\ selection \in 0..Len(mkv_files)
    /\ op' = [kind |-> kind, track_type |-> track_type, mode |-> "single"]
    /\ diskAtStart' = disk
    /\ jsonDirAtStart' = jsonDir
    /\ LET file_path == mkv_files[selection]
           tracks == IF selection = 0 THEN <<>>
                     ELSE ScanTracks(jsonDir, disk, file_path, track_type)
           selected_track == tracks[track_selection]
           calls == SelectedCalls(selected_track, SingleFlags(kind))
                    \o OtherCalls(tracks, 1, selected_track.track_id,
                                  SingleFlags(kind))
       IN  /\ track_selection \in 0..Len(tracks)
           /\ IF selection = 0 \/ track_selection = 0
              THEN /\ Return(IF selection # 0 /\ tracks = <<>>
                             THEN "no_tracks" ELSE "cancelled")
                   /\ log' = <<>>
                   /\ UNCHANGED <<disk, jsonDir>>
              ELSE IF TrackGet(selected_track, "track_id", None) = None
              THEN /\ Return("no_track_id")
                   /\ log' = <<>>
                   /\ UNCHANGED <<disk, jsonDir>>
              ELSE \E answers \in [1..Len(calls) -> ToolOutcomes] :
                       LET st == RunCalls([disk |-> disk, dir |-> jsonDir,
                                           log |-> <<>>, raised |-> ""],
                                          file_path, calls, 1, answers)
                       IN  /\ disk' = st.disk
                           /\ jsonDir' = st.dir
                           /\ log' = st.log
                           /\ Return("single")
    /\ unique_tracks_list' = <<>>
    /\ selected_track_info' = [language |-> "", title |-> ""]
    /\ files_with_track' = <<>>
    /\ files_without_track' = <<>>
    /\ files_requiring_sudo' = <<>>
    /\ sudo_password_input' = None
    /\ submitted' = <<>>
    /\ queue' = <<>>
    /\ UNCHANGED <<now, last_call, callers, nav>>

(* ------------------------------ other menu ----------------------------- *)

\* check_all_media_info over files[n..]: a file without a cache entry is
\* inspected and written to the cache
RECURSIVE check_all_media_info(_, _, _, _)
check_all_media_info(dir, dsk, files, n) ==
    IF n > Len(files) THEN dir
    ELSE check_all_media_info(
             IF check_if_media_info_exists(dir, ShowName, files[n]) # <<>>
             THEN dir
             ELSE update_media_info(dir, dsk, ShowName, files[n]),
             dsk, files, n + 1)

\* menu option 13
RefreshMediaInfo ==
    /\ pc = "menu"
    /\ jsonDir' = check_all_media_info(jsonDir, disk, mkv_files, 1)
    /\ jsonDir' # jsonDir
    /\ UNCHANGED <<disk, now, pc, opLocals, ended, opsStarted, last_call, callers, nav>>

\* menu option 14, offered when check_backup_exists answers true
RestorePreviousChanges ==
    /\ pc = "menu"
    /\ check_backup_exists(jsonDir, ShowName)
    /\ jsonDir' = restore_backup_json(jsonDir, ShowName)
    /\ UNCHANGED <<disk, now, pc, opLocals, ended, opsStarted, last_call, callers, nav>>

Next ==
    \/ \E kind \in Kinds, track_type \in {"audio", "subtitle"} :
           StartBulk(kind, track_type)
    \/ \E selection \in 0..Len(unique_tracks_list) : Select(selection)
    \/ \E response \in {"y", "n"}, password \in {"pw", ""} :
           AnswerSudo(response, password)
    \/ ChooseDryRun
    \/ \E t \in 0..MaxClock : ChooseExecute(t)
    \/ \E option \in {"3", "4"} : ChooseReturn(option)
    \/ RunFile
    \/ RefreshMediaInfo
    \/ RestorePreviousChanges

Spec == Init /\ [][Next]_vars

(* ------------------- planning on one container file -------------------- *)

\* one writable file with any tracks: ids present or absent, languages
\* present or absent, any flags
PlanTracks ==
    UNION {TrackLists(n, TRUE, {"Audio"}, {"eng", "jpn", None}, {""}, BOOLEAN) :
               n \in 1..MaxTracks}

InitPlan ==
    /\ disk \in [{AllFileNames[1]} -> [writable : {TRUE}, tracks : PlanTracks]]
    /\ jsonDir = <<>>
    /\ InitSession

\* every run of the tool succeeds
RunFileOk == ProcessFile(TRUE)

NextPlan ==
    \/ \E kind \in Kinds, track_type \in {"audio", "subtitle"} :
           StartBulk(kind, track_type)
    \/ \E selection \in 0..Len(unique_tracks_list) : Select(selection)
    \/ ChooseDryRun
    \/ \E t \in 0..MaxClock : ChooseExecute(t)
    \/ \E option \in {"3", "4"} : ChooseReturn(option)
    \/ RunFileOk

SpecPlan == InitPlan /\ [][NextPlan]_vars

\* the same file with the single-file flows beside the bulk operations
NextSingle ==
    \/ NextPlan
    \/ \E kind \in Kinds, track_type \in {"audio", "subtitle"},
          selection \in 0..1, track_selection \in 0..MaxTracks :
           SingleFile(kind, track_type, selection, track_selection)

SpecSingle == InitPlan /\ [][NextSingle]_vars

(* ---------------------- a batch with failing files --------------------- *)

\* writable files whose tracks may lack a language; the tool may fail
BatchTracks ==
    UNION {TrackLists(n, FALSE, {"Audio"}, {"eng", None}, {""}, {FALSE}) :
               n \in 1..MaxTracks}

InitBatch ==
    /\ disk \in [SeqToSet(MkvFilesOf(NumFiles)) ->
                    [writable : {TRUE}, tracks : BatchTracks]]
    /\ jsonDir = <<>>
    /\ InitSession

NextBatch ==
    \/ \E kind \in Kinds, track_type \in {"audio", "subtitle"} :
           StartBulk(kind, track_type)
    \/ \E selection \in 0..Len(unique_tracks_list) : Select(selection)
    \/ ChooseDryRun
    \/ \E t \in 0..MaxClock : ChooseExecute(t)
    \/ \E option \in {"3", "4"} : ChooseReturn(option)
    \/ RunFile

SpecBatch == InitBatch /\ [][NextBatch]_vars

(* ----------------------- grouping and partition ----------------------- *)

\* writable files whose languages come in several spellings of one identity
GroupTracks ==
    UNION {TrackLists(n, FALSE, {"Audio"}, {"eng", "ENG ", "jpn"}, {""}, {FALSE}) :
               n \in 1..MaxTracks}

InitGroup ==
    /\ disk \in [SeqToSet(MkvFilesOf(NumFiles)) ->
                    [writable : {TRUE}, tracks : GroupTracks]]
    /\ jsonDir = <<>>
    /\ InitSession

NextGroup ==
    \/ \E kind \in Kinds, track_type \in {"audio", "subtitle"} :
           StartBulk(kind, track_type)
    \/ \E selection \in 0..Len(unique_tracks_list) : Select(selection)
    \/ \E option \in {"3", "4"} : ChooseReturn(option)

SpecGroup == InitGroup /\ [][NextGroup]_vars

(* ------------------------ the show cache alone ------------------------- *)

\* two episodes of two seasons and two unseasoned files
CacheFiles == {"Show.S01E01.mkv", "Show.S02E01.mkv", "Extra 2.mkv", "Extra 1.mkv"}

CacheEntry(file_name) ==
    [k |-> file_name,
     v |-> [filename |-> file_name,
            media_info |-> [general |-> <<>>, video |-> <<>>, audio |-> <<>>,
                            text |-> <<>>]]]

\* the values of one season of a cache handed to save_json
SeasonDicts ==
    {<<CacheEntry("Extra 1.mkv")>>,
     <<CacheEntry("Extra 2.mkv"), CacheEntry("Extra 1.mkv")>>}

\* the caches handed to save_json: up to two seasons, in any order
ShowCaches ==
    LET keys == {"Season 2", "Season 1", "No Season"}
    IN  {<<>>}
        \cup {<<[k |-> a, v |-> x]>> : a \in keys, x \in SeasonDicts}
        \cup {c \in {<<[k |-> a, v |-> x], [k |-> b, v |-> y]>> :
                         a \in keys, b \in keys, x \in SeasonDicts, y \in SeasonDicts} :
                  c[1].k # c[2].k}

InitCache ==
    /\ disk = [f \in CacheFiles |->
                  [writable |-> TRUE,
                   tracks |-> <<[track_id |-> "1", track_type |-> "Audio",
                                 language |-> "eng", title |-> "",
                                 forced |-> FALSE, default |-> FALSE]>>]]
    /\ jsonDir = <<>>
    /\ InitSession

CacheFrame ==
    UNCHANGED <<now, pc, op, unique_tracks_list, selected_track_info,
                files_with_track, files_without_track, files_requiring_sudo,
                sudo_password_input, submitted, queue, diskAtStart,
                jsonDirAtStart, callers, nav, ended, opsStarted>>

\* update_media_info(show_name, file_path) called for one file
UpdateEpisode(file_path) ==
    /\ Len(log) < MaxCalls
    /\ jsonDir' = update_media_info(jsonDir, disk, ShowName, file_path)
    /\ last_call' = [call |-> "update", file |-> file_path,
                     returned |-> gather_tracks(disk, file_path)]
    /\ log' = Append(log, Event("update", file_path, None, "", FALSE, FALSE, ""))
    /\ UNCHANGED disk
    /\ CacheFrame

\* save_json(show_name, data) called with one cache value
SaveCache(data) ==
    /\ Len(log) < MaxCalls
    /\ jsonDir' = save_json(jsonDir, ShowName, data)
    /\ last_call' = [call |-> "save", data |-> data]
    /\ log' = Append(log, Event("save", "", None, "", FALSE, FALSE, ""))
    /\ UNCHANGED disk
    /\ CacheFrame

\* the tool, run outside of the cache, flips the forced flag of a file's track
ToolEdits(file_path) ==
    /\ Len(log) < MaxCalls
    /\ disk' = SetFlag(disk, file_path, "1", "flag-forced",
                       ~disk[file_path].tracks[1].forced)
    /\ last_call' = NoCall
    /\ log' = Append(log, Event("tool", file_path, "1", "flag-forced",
                                ~disk[file_path].tracks[1].forced, FALSE, "ok"))
    /\ UNCHANGED jsonDir
    /\ CacheFrame

NextCache ==
    \/ \E f \in CacheFiles : UpdateEpisode(f)
    \/ \E c \in ShowCaches : SaveCache(c)
    \/ \E f \in CacheFiles : ToolEdits(f)

SpecCache == InitCache /\ [][NextCache]_vars

(* ------------------- several directories, one cache -------------------- *)

\* two working directories, each the first season of a show
ShowDirectories == {"/media/ShowA/Season 1", "/media/ShowB/Season 1"}

\* os.path.basename(directory)
basename(directory) ==
    CASE directory = "/media/ShowA/Season 1" -> "Season 1"
      [] directory = "/media/ShowB/Season 1" -> "Season 1"
      [] OTHER -> directory

\* get_mkv_files(directory)
FilesIn(directory) ==
    CASE directory = "/media/ShowA/Season 1" -> {"ShowA.S01E01.mkv", "ShowA.S01E01.720p.mkv"}
      [] directory = "/media/ShowB/Season 1" -> {"ShowB.S01E01.mkv"}
      [] OTHER -> {}

ShowsFiles == UNION {FilesIn(d) : d \in ShowDirectories}

\* every file holds one audio track, of either language, forced or not
InitShows ==
    /\ disk \in [ShowsFiles ->
                    {[writable |-> TRUE,
                      tracks |-> <<[track_id |-> "1", track_type |-> "Audio",
                                    language |-> l, title |-> "",
                                    forced |-> b, default |-> FALSE]>>] :
                         l \in {"eng", "jpn"}, b \in BOOLEAN}]
    /\ jsonDir = <<>>
    /\ InitSession

\* show_name = os.path.basename(directory); update_media_info(show_name, file_path)
UpdateIn(directory, file_path) ==
    /\ Len(log) < MaxCalls
    /\ file_path \in FilesIn(directory)
    /\ jsonDir' = update_media_info(jsonDir, disk, basename(directory), file_path)
    /\ last_call' = [call |-> "update", file |-> file_path,
                     returned |-> gather_tracks(disk, file_path)]
    /\ log' = Append(log, Event("update", file_path, None, "", FALSE, FALSE, ""))
    /\ UNCHANGED disk
    /\ CacheFrame

NextShows ==
    \E d \in ShowDirectories : \E f \in FilesIn(d) : UpdateIn(d, f)

SpecShows == InitShows /\ [][NextShows]_vars

(* ------------------------- the track inspector ------------------------ *)

\* the track types MediaInfo reports
TrackTypes == {"General", "Video", "Audio", "Text", "Menu", "Other"}

\* one file with tracks of any type
InitInspect ==
    /\ disk \in [{AllFileNames[1]} ->
                    [writable : {TRUE},
                     tracks : UNION {TrackLists(n, FALSE, TrackTypes, {"eng"}, {""}, {FALSE}) :
                                         n \in 1..MaxTracks}]]
    /\ jsonDir = <<>>
    /\ InitSession

\* gather_tracks(file_path) called for one file
GatherTracks(file_path) ==
    /\ Len(log) < MaxCalls
    /\ last_call' = [call |-> "gather", file |-> file_path,
                     returned |-> gather_tracks(disk, file_path)]
    /\ log' = Append(log, Event("gather", file_path, None, "", FALSE, FALSE, ""))
    /\ UNCHANGED <<disk, jsonDir>>
    /\ CacheFrame

NextInspect ==
    \/ \E f \in DOMAIN disk : GatherTracks(f)
    \/ \E f \in DOMAIN disk : UpdateEpisode(f)

SpecInspect == InitInspect /\ [][NextInspect]_vars

(* ----------------------------- the menus ------------------------------ *)

\* nested calls of navigate_and_browse below edit_mkv_files_menu
MaxDepth == 2

\* get_subdirectories(current_directory)
Subdirectories == {"Season 1"}

\* a function returned `result` to the innermost waiting menu of `stack`:
\* navigate_and_browse passes "main_menu" on to its own caller and prompts
\* again after anything else; the main menu prompts again whatever
\* edit_mkv_files_menu returned. The answer is the prompt reached and the
\* menus still waiting.
RECURSIVE ReturnTo(_, _)
ReturnTo(stack, result) ==
    LET caller == stack[Len(stack)]
        below == SubSeq(stack, 1, Len(stack) - 1)
    IN  IF caller = "browse" /\ result = "main_menu"
        THEN ReturnTo(below, "main_menu")
        ELSE [pc |-> caller, callers |-> below]

MenuFrame ==
    UNCHANGED <<disk, jsonDir, now, opLocals, ended, opsStarted, last_call>>

\* option 3 of the main menu: edit_mkv_files_menu calls navigate_and_browse
\* on the configured directory
EditMkvFiles ==
    /\ pc = "main_menu"
    /\ pc' = "browse"
    /\ callers' = Append(callers, "main_menu")
    /\ nav' = <<NavigateFrame(MediaDirectory)>>
    /\ MenuFrame

\* a subdirectory chosen at the prompt of navigate_and_browse
BrowseSubdirectory ==
    /\ pc = "browse"
    /\ Len(callers) < MaxDepth
    /\ pc' = "browse"
    /\ callers' = Append(callers, "browse")
    /\ \E subdir \in Subdirectories :
           nav' = Append(nav, NavigateFrame(
                      Append(nav[Len(nav)].current_directory, subdir)))
    /\ MenuFrame

\* 'Move to previous directory': the option holds previous_directory, which
\* was computed when the call began; every directory of the tree exists
BrowsePrevious ==
    /\ pc = "browse"
    /\ nav' = [nav EXCEPT ![Len(nav)].current_directory =
                              nav[Len(nav)].previous_directory]
    /\ last_call' = [call |-> "previous",
                     shown |-> nav[Len(nav)].current_directory]
    /\ UNCHANGED <<disk, jsonDir, now, pc, opLocals, ended, opsStarted, callers>>

\* 'Work in current directory': media_action is work_in_current_directory
BrowseWorkCurrent ==
    /\ pc = "browse"
    /\ mkv_files # <<>>
    /\ pc' = "menu"
    /\ callers' = Append(callers, "browse")
    /\ UNCHANGED nav
    /\ MenuFrame

\* option 0 of navigate_and_browse: return "main_menu"
BrowseMainMenu ==
    /\ pc = "browse"
    /\ pc' = ReturnTo(callers, "main_menu").pc
    /\ callers' = ReturnTo(callers, "main_menu").callers
    /\ nav' = <<>>
    /\ MenuFrame

\* option 0 of work_in_current_directory: return "main_menu"
WorkMainMenu ==
    /\ pc = "menu"
    /\ pc' = ReturnTo(callers, "main_menu").pc
    /\ callers' = ReturnTo(callers, "main_menu").callers
    /\ nav' = <<>>
    /\ MenuFrame

\* 'Return to previous menu' of work_in_current_directory: a bare return
WorkPreviousMenu ==
    /\ pc = "menu"
    /\ pc' = ReturnTo(callers, None).pc
    /\ callers' = ReturnTo(callers, None).callers
    /\ UNCHANGED nav
    /\ MenuFrame

NextMenus ==
    \/ \E kind \in Kinds, track_type \in {"audio", "subtitle"} :
           StartBulk(kind, track_type)
    \/ \E selection \in 0..Len(unique_tracks_list) : Select(selection)
    \/ \E option \in {"3", "4"} : ChooseReturn(option)
    \/ EditMkvFiles
    \/ BrowseSubdirectory
    \/ BrowsePrevious
    \/ BrowseWorkCurrent
    \/ BrowseMainMenu
    \/ WorkMainMenu
    \/ WorkPreviousMenu

SpecMenus == InitGroup /\ [][NextMenus]_vars

(* --------------------- permissions changing meanwhile ----------------- *)

\* somebody else changes the mode of a file while the operation waits at the
\* sudo prompt or at the options prompt, between the two calls of
\* has_write_permission
PermissionChanges(file_path) ==
    /\ pc \in {"sudo_prompt", "options"}
    /\ disk' = [disk EXCEPT ![file_path].writable = ~@]
    /\ UNCHANGED <<jsonDir, now, pc, opLocals, ended, opsStarted, last_call, callers, nav>>

InitRace ==
    /\ disk \in [SeqToSet(MkvFilesOf(NumFiles)) ->
                    [writable : BOOLEAN, tracks : LibraryTracks]]
    /\ jsonDir = <<>>
    /\ InitSession

NextRace ==
    \/ \E kind \in Kinds, track_type \in {"audio", "subtitle"} :
           StartBulk(kind, track_type)
    \/ \E selection \in 0..Len(unique_tracks_list) : Select(selection)
    \/ \E response \in {"y", "n"}, password \in {"pw", ""} :
           AnswerSudo(response, password)
    \/ \E t \in 0..MaxClock : ChooseExecute(t)
    \/ \E option \in {"3", "4"} : ChooseReturn(option)
    \/ RunFile
    \/ \E f \in DOMAIN disk : PermissionChanges(f)

SpecRace == InitRace /\ [][NextRace]_vars

(* ----------------------- files that cannot be read ------------------- *)

\* the show's cache file is damaged while the session runs
CacheBecomesCorrupt ==
    /\ pc # "crashed"
    /\ ~load_json_raises(jsonDir, ShowName)
    /\ jsonDir' = WriteFile(jsonDir, JsonPath(ShowName), CorruptDocument)
    /\ UNCHANGED <<disk, now, pc, opLocals, ended, opsStarted, last_call, callers, nav>>

\* a file of the directory is damaged or taken away while the session runs
FileBecomesUnreadable(file_path) ==
    /\ pc # "crashed"
    /\ ~disk[file_path].unreadable
    /\ disk' = [disk EXCEPT ![file_path].unreadable = TRUE]
    /\ UNCHANGED <<jsonDir, now, pc, opLocals, ended, opsStarted, last_call, callers, nav>>

InitProbe ==
    /\ disk \in [SeqToSet(MkvFilesOf(NumFiles)) ->
                    [writable : {TRUE}, unreadable : {FALSE}, tracks : LibraryTracks]]
    /\ jsonDir = <<>>
    /\ InitSession

NextProbe ==
    \/ \E kind \in Kinds, track_type \in {"audio", "subtitle"} :
           StartBulk(kind, track_type)
    \/ \E selection \in 0..Len(unique_tracks_list) : Select(selection)
    \/ ChooseDryRun
    \/ \E t \in 0..MaxClock : ChooseExecute(t)
    \/ \E option \in {"3", "4"} : ChooseReturn(option)
    \/ RunFile
    \/ \E f \in DOMAIN disk : FileBecomesUnreadable(f)
    \/ CacheBecomesCorrupt

SpecProbe == InitProbe /\ [][NextProbe]_vars

(* ------------------------------ vocabulary ----------------------------- *)

\* the events of kind ev in the operation's record
EventsOf(ev) == {i \in 1..Len(log) : log[i].ev = ev}

\* the mutations requested for a file, in order: <<track_id, flag, value>>
RequestsIn(events, file_path) ==
    LET asked == SelectSeq(events,
                           LAMBDA e : e.ev = "request" /\ e.file = file_path)
    IN  [i \in 1..Len(asked) |-> <<asked[i].track_id, asked[i].flag, asked[i].value>>]

\* the mutations bulk_modify_files requests for a file in the state dsk
PlanOf(dsk, file_path, sel, track_type, flag_name) ==
    RequestsIn(BulkModifyFile([disk |-> dsk, dir |-> <<>>, log |-> <<>>,
                               raised |-> ""],
                              file_path, sel, track_type, flag_name, TRUE, FALSE,
                              None,
                              [i \in 1..Len(dsk[file_path].tracks) |-> "ok"]).log,
               file_path)

\* the container's tracks of the operation's track type
DiskTracks(dsk, file_path, track_type) ==
    SelectSeq(dsk[file_path].tracks,
              LAMBDA t : LowerStrip(t.track_type)
                             = (IF track_type = "subtitle" THEN "text" ELSE track_type))

HoldsFlag(track, flag_name) ==
    IF flag_name = "flag-forced" THEN track.forced ELSE track.default

\* the normalized (language, title) identity: lower case, trimmed, a missing
\* language is "und", a missing title is empty
Identity(language, title) ==
    <<LowerStrip(IF language = None THEN "und" ELSE language),
      LowerStrip(IF title = None THEN "" ELSE title)>>

IsSelected(track) ==
    Identity(track.language, track.title)
        = Identity(selected_track_info.language, selected_track_info.title)

SubmittedFiles == {submitted[i].file : i \in 1..Len(submitted)}

AllHaveIds(dsk, file_path, track_type) ==
    LET ts == DiskTracks(dsk, file_path, track_type)
    IN  \A i \in 1..Len(ts) : ts[i].track_id # None

EveryToolRunOk == \A i \in EventsOf("tool") : log[i].outcome = "ok"

\* the file loop ended the file early on an exception
Errored(file_path) == \E i \in EventsOf("error") : log[i].file = file_path

LiveRunOver == pc = "menu" /\ ended = "execute"

RunOver == pc = "menu" /\ ended \in {"execute", "dry_run"}

(* ------------------------------- claims -------------------------------- *)

\* exactly one track of the type has the selected identity
OneSelected(dsk, file_path, track_type) ==
    LET ts == DiskTracks(dsk, file_path, track_type)
    IN  Cardinality({i \in 1..Len(ts) : IsSelected(ts[i])}) = 1

\* C1: after a live bulk operation for one flag in which every run of the
\* tool succeeded, every processed file whose tracks of the type all have a
\* track_id holds the flag on exactly one track of the type, the one with
\* the selected identity (so every other track that held it was cleared).
C1_ExactlyOneTrackHoldsFlag ==
    (LiveRunOver /\ op.kind \in {"forced", "default"} /\ EveryToolRunOk) =>
        \A f \in SubmittedFiles :
            (/\ AllHaveIds(disk, f, op.track_type)
             /\ ~Errored(f)
             /\ OneSelected(disk, f, op.track_type)) =>
                LET ts == DiskTracks(disk, f, op.track_type)
                    holders == {i \in 1..Len(ts) : HoldsFlag(ts[i], FlagOf(op.kind))}
                IN  /\ Cardinality(holders) = 1
                    /\ \A i \in holders : IsSelected(ts[i])

\* C2: the mutations requested for one file and one flag hold at most one
\* entry with the value true, whatever the tracks of the file are.
C2_AtMostOneTrueEntry ==
    \A f \in DOMAIN disk :
        Cardinality({i \in EventsOf("request") :
                        log[i].file = f /\ log[i].value = TRUE}) <= 1

\* the plan of section 4.4: true for the selected track that does not hold
\* the flag, false for every other track that holds it, nothing else
ExpectedEntries(dsk, file_path, track_type, flag_name) ==
    LET ts == DiskTracks(dsk, file_path, track_type)
    IN  {<<ts[i].track_id, flag_name, TRUE>> :
             i \in {j \in 1..Len(ts) : /\ ts[j].track_id # None
                                       /\ IsSelected(ts[j])
                                       /\ ~HoldsFlag(ts[j], flag_name)}}
        \cup
        {<<ts[i].track_id, flag_name, FALSE>> :
             i \in {j \in 1..Len(ts) : /\ ts[j].track_id # None
                                       /\ ~IsSelected(ts[j])
                                       /\ HoldsFlag(ts[j], flag_name)}}

\* C3: the entries requested for a processed file are exactly: true for the
\* selected track not yet holding the flag, false for every other track of
\* the type that holds it.
C3_PlanIsMinimalReconciliation ==
    (RunOver /\ op.kind \in {"forced", "default"}) =>
        \A f \in SubmittedFiles :
            ~Errored(f) =>
            SeqToSet(RequestsIn(log, f))
                = ExpectedEntries(diskAtStart, f, op.track_type, FlagOf(op.kind))

\* C4: once a live run applied its plan with every run of the tool
\* succeeding, planning again with the same selection requests nothing.
C4_SecondPlanIsEmpty ==
    (LiveRunOver /\ EveryToolRunOk) =>
        \A f \in SubmittedFiles :
            PlanOf(disk, f, selected_track_info, op.track_type, FlagOf(op.kind)) = <<>>

\* C5: in a dry run the external tool is never run; every requested entry is
\* reported with its would-be command and the containers stay as they were.
C5_DryRunNeverRunsTool ==
    op.mode = "dry_run" =>
        /\ EventsOf("tool") = {}
        /\ disk = diskAtStart
        /\ \A i \in EventsOf("request") :
               /\ i < Len(log)
               /\ log[i + 1].ev = "would"
               /\ log[i + 1].track_id = log[i].track_id

C5_DryRunReported ==
    /\ pc = "menu" /\ ended = "dry_run"
    /\ EventsOf("would") # {}

\* C6: a dry run never calls update_media_info: the show cache is not
\* rewritten from the choice of 'Perform a Dry Run' to the end of the run.
C6_DryRunNeverUpdatesCache ==
    op.mode = "dry_run" => EventsOf("update") = {}

\* the backups create_backup_json wrote, by their second
BackupSeconds == {t \in 0..MaxClock : PathExists(jsonDir, BackupPath(ShowName, t))}

LatestBackup ==
    BackupPath(ShowName, CHOOSE t \in BackupSeconds : \A u \in BackupSeconds : u <= t)

\* C7: a restore after a backup (and any cache updates since) leaves the
\* live cache file equal to the most recent backup.
C7_RestoreReturnsLatestBackup ==
    [][(RestorePreviousChanges /\ BackupSeconds # {})
           => jsonDir'[JsonPath(ShowName)] = jsonDir[LatestBackup]]_vars

\* C8: in a bulk operation the call of create_backup_json comes before every
\* live run of the tool: the record of a live operation starts with it.
C8_BackupBeforeFirstLiveRun ==
    /\ op.mode = "execute" => (log # <<>> /\ log[1].ev = "backup")
    /\ \A i \in EventsOf("tool") : \E j \in EventsOf("backup") : j < i

C8_LiveRunAfterBackup ==
    \E i \in EventsOf("tool") : log[i].outcome = "ok" /\ log[1].ev = "backup"

\* C9: the combined operation requests, for every processed file, the
\* default-flag plan followed by the forced-flag plan of the same selection.
C9_BothIsDefaultThenForced ==
    (RunOver /\ op.kind = "both") =>
        \A f \in SubmittedFiles :
            RequestsIn(log, f)
                = PlanOf(diskAtStart, f, selected_track_info, op.track_type,
                         "flag-default")
                  \o PlanOf(diskAtStart, f, selected_track_info, op.track_type,
                            "flag-forced")

\* the tracks of a file for which the loop requests a mutation first
FirstRequests(events, file_path) ==
    LET asked == SelectSeq(events,
                           LAMBDA e : /\ e.ev = "request" /\ e.file = file_path
                                      /\ (e.sudo => submitted # <<>> /\
                                            \E k \in 1..Len(submitted) :
                                                /\ submitted[k].file = file_path
                                                /\ submitted[k].sudo))
    IN  [i \in 1..Len(asked) |-> <<asked[i].track_id, asked[i].flag, asked[i].value>>]

\* C10: a failure on one file never keeps the other files of the batch from
\* being processed: when the run is over every submitted file was visited
\* and every mutation planned for it was requested.
C10_EveryFileProcessed ==
    (pc = "menu" /\ submitted # <<>>) =>
        /\ ended \in {"execute", "dry_run"}
        /\ \A f \in SubmittedFiles :
               /\ \E i \in EventsOf("visit") : log[i].file = f
               /\ ~Errored(f) =>
                      FirstRequests(log, f)
                          = PlanOf(diskAtStart, f, selected_track_info,
                                   op.track_type, FlagOf(op.kind))

C10_FailureThenNextFile ==
    /\ pc = "menu"
    /\ \E i \in EventsOf("tool"), j \in EventsOf("request") :
           /\ log[i].outcome = "perm"
           /\ i < j
           /\ log[j].file # log[i].file

\* the events of kind ev recorded for one file
FileEvents(ev, file_path) == {i \in EventsOf(ev) : log[i].file = file_path}

\* C11: within one bulk operation every file sees at most one sudo prompt
\* and at most one retry of the tool with sudo after a permission error,
\* however many of its entries fail with a permission error.
C11_OneElevationPerFile ==
    \A f \in DOMAIN disk :
        /\ Cardinality(FileEvents("prompt", f)) <= 1
        /\ Cardinality({i \in FileEvents("tool", f) :
                            log[i].sudo /\ \E k \in 1..Len(submitted) :
                                submitted[k].file = f /\ ~submitted[k].sudo}) <= 1

\* C12: a run of the tool with sudo that fails is never reported as
\* 'set': every success report follows a run that ended ok.
C12_FailedElevationNotReportedSet ==
    \A i \in EventsOf("set") : log[i].outcome = "ok"

\* C13: cancelling at the track-selection prompt or at the options prompt
\* ends the operation with nothing done since it started: no tool run, no
\* cache write, no backup, the containers and the json directory as they were.
C13_CancelHasNoSideEffects ==
    [][(Select(0) \/ \E option \in {"3", "4"} : ChooseReturn(option)) =>
           /\ log' = <<>>
           /\ disk' = diskAtStart
           /\ jsonDir' = jsonDirAtStart]_vars

C13_CancelledWithCachePresent ==
    /\ pc = "menu"
    /\ ended = "returned"
    /\ PathExists(jsonDir, JsonPath(ShowName))

\* C19: no file of files_without_track is handed to bulk_modify_files: it
\* is never visited, no entry is requested for it and the tool never runs
\* on it, in a dry run as in a live run.
C19_FilesWithoutAreNeverPlanned ==
    \A f \in SeqToSet(files_without_track) :
        /\ FileEvents("visit", f) = {}
        /\ FileEvents("request", f) = {}
        /\ FileEvents("tool", f) = {}

C19_RunWithFilesLeftOut ==
    /\ RunOver
    /\ files_without_track # <<>>
    /\ EventsOf("request") # {}

\* the orders in which os.listdir may list the files of the directory
FileOrders ==
    {p \in [1..Len(mkv_files) -> SeqToSet(mkv_files)] :
        \A i, j \in 1..Len(mkv_files) : i # j => p[i] # p[j]}

\* the mapping identity -> count of a collecting scan
CountMap(unique_tracks) ==
    {<<unique_tracks[i].k, unique_tracks[i].v.count>> : i \in 1..Len(unique_tracks)}

\* the same mapping read off the list shown at the selection prompt
ListedCounts ==
    {<<TrackKey(unique_tracks_list[i]), unique_tracks_list[i].count>> :
        i \in 1..Len(unique_tracks_list)}

\* C16: the collecting scan run over the files in any order gives the
\* mapping from normalized (language, title) to count that the operation
\* shows at the selection prompt.
C16_GroupingIgnoresFileOrder ==
    pc = "select" =>
        \A p \in FileOrders :
            CountMap(CollectUnique(EmptyDict, jsonDir, disk, p, 1, op.track_type))
                = ListedCounts

\* two orders list the identities differently, one identity has two spellings
C16_OrdersListDifferently ==
    /\ pc = "select"
    /\ \E i \in 1..Len(unique_tracks_list) : unique_tracks_list[i].count >= 2
    /\ \E p \in FileOrders :
           DictKeys(CollectUnique(EmptyDict, jsonDir, disk, p, 1, op.track_type))
               # [i \in 1..Len(unique_tracks_list) |-> TrackKey(unique_tracks_list[i])]
    /\ \E f \in DOMAIN disk : \E i \in 1..Len(disk[f].tracks) :
           disk[f].tracks[i].language = "ENG "

\* C17: the count shown for the selected identity is the number of files
\* that hold a track of that identity, the length of files_with_track.
C17_CountIsNumberOfFiles ==
    pc = "options" =>
        \A i \in 1..Len(unique_tracks_list) :
            (/\ unique_tracks_list[i].language = selected_track_info.language
             /\ unique_tracks_list[i].title = selected_track_info.title)
                => unique_tracks_list[i].count = Len(files_with_track)

\* C18: a track without track_id is never the target of a run of the
\* tool, in a bulk operation or a single-file flow, live or dry: every
\* request names the track_id of a track of the file, and a track without
\* track_id keeps its flags.
C18_NoIdNeverTargeted ==
    /\ \A i \in EventsOf("request") \cup EventsOf("tool") :
           /\ log[i].track_id # None
           /\ \E k \in 1..Len(disk[log[i].file].tracks) :
                  disk[log[i].file].tracks[k].track_id = log[i].track_id
    /\ \A f \in DOMAIN disk : \A k \in 1..Len(disk[f].tracks) :
           disk[f].tracks[k].track_id = None
               => disk[f].tracks[k] = diskAtStart[f].tracks[k]

\* a live run that set the flag on a file where a track of the selected
\* identity has no track_id
C18_SelectedTrackWithoutId ==
    /\ LiveRunOver
    /\ \E i \in EventsOf("tool") : log[i].outcome = "ok"
    /\ \E f \in SubmittedFiles : \E k \in 1..Len(disk[f].tracks) :
           /\ disk[f].tracks[k].track_id = None
           /\ IsSelected(disk[f].tracks[k])

\* the keys of one season are in ascending order of their first number
KeysAscending(season) ==
    \A a, b \in 1..Len(season) :
        a < b => FirstNumber(season[a].k) <= FirstNumber(season[b].k)

\* C14: in every persisted show cache the episode keys of each season are
\* in ascending numeric order of the first number found in the key.
C14_EpisodeKeysSorted ==
    PathExists(jsonDir, JsonPath(ShowName)) =>
        \A i \in 1..Len(jsonDir[JsonPath(ShowName)]) :
            KeysAscending(jsonDir[JsonPath(ShowName)][i].v)

\* a cache as a mapping: season key -> (episode key -> entry), order dropped
AsMapping(data) ==
    {<<data[i].k, {<<data[i].v[j].k, data[i].v[j].v>> : j \in 1..Len(data[i].v)}>> :
        i \in 1..Len(data)}

\* C15: load_json after save_json(show, c) returns c as a mapping, and
\* load_json of a show never saved returns the empty cache.
C15_SaveThenLoad ==
    /\ last_call.call = "save" =>
           AsMapping(load_json(jsonDir, ShowName)) = AsMapping(last_call.data)
    /\ ~PathExists(jsonDir, JsonPath(ShowName)) =>
           load_json(jsonDir, ShowName) = EmptyDict

\* a saved cache of two seasons, one of them unnumbered, that save_json reordered
C15_SavedReordered ==
    /\ last_call.call = "save"
    /\ Len(last_call.data) = 2
    /\ DictHas(last_call.data, "No Season")
    /\ DictKeys(load_json(jsonDir, ShowName)) # DictKeys(last_call.data)

\* C20: right after update_media_info the lookup of the same file returns
\* the snapshot update_media_info returned, which is the file as it is now.
C20_LookupAfterUpdate ==
    last_call.call = "update" =>
        /\ check_if_media_info_exists(jsonDir, ShowName, last_call.file)
               = <<last_call.returned>>
        /\ last_call.returned = gather_tracks(disk, last_call.file)

\* an unseasoned file updated again after the tool changed it
C20_UpdatedAfterEdit ==
    /\ last_call.call = "update"
    /\ last_call.file = "Extra 1.mkv"
    /\ disk["Extra 1.mkv"].tracks[1].forced
    /\ Cardinality(FileEvents("update", "Extra 1.mkv")) = 2

\* C21: a choice of 'return to main menu', at the options prompt of a bulk
\* operation, at the options of the directory or while browsing, ends at
\* the prompt of the main menu with no menu left waiting.
C21_MainMenuChoiceReachesMainMenu ==
    [][(ChooseReturn("4") \/ WorkMainMenu \/ BrowseMainMenu) =>
           /\ pc' = "main_menu"
           /\ callers' = <<>>]_vars

\* the groups of a snapshot
Groups == {"general", "video", "audio", "text"}

\* C22: in the snapshot gather_tracks returns, no track of type menu is in
\* any group and every track of a group has the group's name as track_type.
C22_GroupsHoldTheirTypeOnly ==
    last_call.call = "gather" =>
        \A g \in Groups : \A i \in 1..Len(last_call.returned[g]) :
            /\ last_call.returned[g][i].track_type # "menu"
            /\ last_call.returned[g][i].track_type = g

\* a file with a menu track beside a track that is kept
C22_GatheredFileWithMenu ==
    /\ last_call.call = "gather"
    /\ \E i \in 1..Len(disk[last_call.file].tracks) :
           disk[last_call.file].tracks[i].track_type = "Menu"
    /\ \E g \in Groups : last_call.returned[g] # <<>>

\* C23: in every workflow, bulk or single-file, a live run of the tool
\* comes after a call of create_backup_json made in the same workflow.
C23_BackupInEveryWorkflow ==
    \A i \in EventsOf("tool") :
        \E j \in EventsOf("backup") : j < i /\ log[j].ev = "backup"

\* C24: when the collecting scan is over every file of the directory has
\* an entry in the show cache: the snapshot of a file that had none was
\* written back.
C24_CollectingFillsCache ==
    pc = "select" =>
        \A f \in SeqToSet(mkv_files) :
            check_if_media_info_exists(jsonDir, ShowName, f) # <<>>

\* the states of a bulk operation in their order: selecting (the collecting
\* scan is over), confirming (the partition is made), the run, done
StateRank(prompt) ==
    CASE prompt = "select" -> 1
      [] prompt = "sudo_prompt" -> 2
      [] prompt = "options" -> 3
      [] prompt = "running" -> 4
      [] OTHER -> 5

\* C25: a bulk operation never steps back to an earlier state, the choice
\* between dry run and execution is made once, and the tool is run and the
\* backup written only in an operation whose choice was 'Execute Changes'.
C25_StatesInOrder ==
    [][/\ pc # "menu" => StateRank(pc') >= StateRank(pc)
       /\ (pc # "menu" /\ op.mode # "") => op'.mode = op.mode
       /\ \A i \in 1..Len(log') :
              /\ log'[i].ev \in {"tool", "backup"} => op'.mode = "execute"
              /\ log'[i].ev = "would" => op'.mode = "dry_run"]_vars

\* a live run that went through every state and is done
C25_LiveRunDone ==
    /\ pc = "menu"
    /\ ended = "execute"
    /\ submitted # <<>>
    /\ EventsOf("backup") # {}
    /\ EventsOf("tool") # {}

\* the requests of the single-file variant for the selected track ts[k]:
\* true for it unless it holds the flag, then false for every other track
\* of the type that holds the flag
ExpectedSingle(dsk, file_path, track_type, flag_name, k) ==
    LET ts == DiskTracks(dsk, file_path, track_type)
        others == SelectSeq(ts, LAMBDA t : /\ t.track_id # None
                                           /\ t.track_id # ts[k].track_id
                                           /\ HoldsFlag(t, flag_name))
    IN  (IF HoldsFlag(ts[k], flag_name) THEN <<>>
         ELSE <<<<ts[k].track_id, flag_name, TRUE>>>>)
        \o [i \in 1..Len(others) |-> <<others[i].track_id, flag_name, FALSE>>]

\* C26: a single-file flow for one flag that ran without an error requested,
\* for the track the user selected, exactly these entries in this order.
C26_SingleFilePlan ==
    (pc = "menu" /\ ended = "single" /\ op.kind \in {"forced", "default"}
        /\ EventsOf("error") = {}) =>
        \A f \in DOMAIN disk :
            \E k \in 1..Len(DiskTracks(diskAtStart, f, op.track_type)) :
                /\ DiskTracks(diskAtStart, f, op.track_type)[k].track_id # None
                /\ RequestsIn(log, f)
                       = ExpectedSingle(diskAtStart, f, op.track_type,
                                        FlagOf(op.kind), k)

\* C27: every track of the type is grouped under its normalized identity,
\* with "und" for a missing language and the empty string for a missing
\* title: the identity is the key of one of the tracks listed for selection.
C27_GroupedUnderNormalizedIdentity ==
    pc = "select" =>
        \A f \in DOMAIN disk :
            \A k \in 1..Len(DiskTracks(disk, f, op.track_type)) :
                \E i \in 1..Len(unique_tracks_list) :
                    TrackKey(unique_tracks_list[i])
                        = Identity(DiskTracks(disk, f, op.track_type)[k].language,
                                   DiskTracks(disk, f, op.track_type)[k].title)

\* C28: in a live run a file that is not writable is handed to the tool only
\* when a sudo password was given at the confirmation prompt, and then with
\* sudo only; a writable file is handed over without sudo, and the tool runs
\* on it with sudo only in the retry the user agreed to after a permission
\* error.
C28_ElevationOnlyWithCredentials ==
    op.mode = "execute" =>
        /\ \A k \in 1..Len(submitted) :
               /\ submitted[k].sudo = ~has_write_permission(disk, submitted[k].file)
               /\ submitted[k].sudo => sudo_password_input \notin {None, ""}
        /\ \A i \in EventsOf("tool") :
               IF has_write_permission(disk, log[i].file)
               THEN log[i].sudo =>
                        \E j \in FileEvents("prompt", log[i].file) :
                            j < i /\ log[j].outcome = "y"
               ELSE log[i].sudo /\ sudo_password_input \notin {None, ""}

\* a live run over a writable file and a file that needed sudo
C28_BothKindsOfFilesRun ==
    /\ LiveRunOver
    /\ \E i, j \in EventsOf("tool") :
           /\ log[i].sudo /\ ~has_write_permission(disk, log[i].file)
           /\ ~log[j].sudo /\ has_write_permission(disk, log[j].file)

\* C29: a live run of the tool without sudo that succeeded is followed, before
\* anything else is done, by the report and by update_media_info for the
\* same file.
C29_UpdateAfterEveryLiveSuccess ==
    \A i \in EventsOf("tool") :
        (log[i].outcome = "ok" /\ ~log[i].sudo) =>
            /\ i + 2 <= Len(log)
            /\ log[i + 1].ev = "set"
            /\ log[i + 2].ev = "update"
            /\ log[i + 2].file = log[i].file

\* a live run in which the tool succeeded without sudo on two files
C29_TwoFilesMutated ==
    /\ LiveRunOver
    /\ \E i, j \in EventsOf("tool") :
           /\ log[i].file # log[j].file
           /\ log[i].outcome = "ok" /\ ~log[i].sudo
           /\ log[j].outcome = "ok" /\ ~log[j].sudo

\* C30: of the runs of the tool without sudo only the one failing with the
\* 'could not be opened for writing' error raises PermissionError (the sudo
\* prompt follows it); after any other failure the call returns, there is
\* no prompt and no second run for the entry, and the remaining entries of
\* the file are requested.
C30_OnlyWriteErrorRaises ==
    /\ \A i \in EventsOf("tool") :
           ~log[i].sudo =>
               /\ i < Len(log)
               /\ log[i].outcome = "perm" <=> log[i + 1].ev \in {"prompt", "error"}
               /\ log[i].outcome = "fail" =>
                      /\ log[i + 1].ev = "update"
                      /\ \A j \in EventsOf("tool") \cup EventsOf("prompt") :
                             (j > i /\ log[j].file = log[i].file)
                                 => log[j].track_id # log[i].track_id
    /\ RunOver =>
           \A f \in SubmittedFiles :
               ~Errored(f) =>
                   Len(FirstRequests(log, f))
                       = Len(PlanOf(diskAtStart, f, selected_track_info,
                                    op.track_type, FlagOf(op.kind)))

\* a run where the tool failed on the first track of a file for another
\* reason and the second track was processed
C30_FailureThenNextEntry ==
    /\ LiveRunOver
    /\ \E i, j \in EventsOf("tool") :
           /\ i < j
           /\ log[i].file = log[j].file
           /\ log[i].outcome = "fail" /\ ~log[i].sudo
           /\ log[i].track_id # log[j].track_id

\* C33: once create_backup_json copied the show's cache, check_backup_exists
\* answers true for the show (and the menu offers the restore).
C33_BackupIsSeen ==
    BackupSeconds # {} => check_backup_exists(jsonDir, ShowName)

\* C34: when a live run ends, the cache entry of every file on which a run
\* of the tool succeeded, with or without sudo, is the inspection of the
\* file as it is then.
C34_CacheFreshAfterLiveRun ==
    [][(pc = "running" /\ pc' = "menu" /\ ended' = "execute") =>
           \A f \in DOMAIN disk :
               (\E i \in 1..Len(log') : /\ log'[i].ev = "tool"
                                        /\ log'[i].file = f
                                        /\ log'[i].outcome = "ok")
                   => check_if_media_info_exists(jsonDir', ShowName, f)
                          = <<gather_tracks(disk', f)>>]_vars

\* the key update_media_info writes for a file: <<season key, episode key>>
EntryKey(file_name) ==
    LET se == extract_season_episode(file_name)
    IN  IF se = <<>> THEN <<"No Season", file_name>>
        ELSE <<SeasonKey(se[1]), EpisodeKey(se[1], se[2])>>

\* the entries of a cache but the one under `key`
EntriesExcept(data, key) ==
    {e \in UNION {{<<data[i].k, data[i].v[j].k, data[i].v[j].v>> :
                       j \in 1..Len(data[i].v)} : i \in 1..Len(data)} :
        <<e[1], e[2]>> # key}

\* C38: update_media_info for a file leaves every entry of the show's cache
\* but the one under the file's own key as it was.
C38_UpdateTouchesOneEntry ==
    [][\A f \in CacheFiles :
           UpdateEpisode(f) =>
               EntriesExcept(load_json(jsonDir', ShowName), EntryKey(f))
                   = EntriesExcept(load_json(jsonDir, ShowName), EntryKey(f))]_vars

\* an update of a file whose season holds another file, beside another season
C38_UpdatedBesideOthers ==
    /\ last_call.call = "update"
    /\ last_call.file = "Extra 1.mkv"
    /\ check_if_media_info_exists(jsonDir, ShowName, "Extra 2.mkv") # <<>>
    /\ check_if_media_info_exists(jsonDir, ShowName, "Show.S01E01.mkv") # <<>>

\* C37: in a live run with a sudo password given, every file of
\* files_with_track is handed to bulk_modify_files exactly once, whatever
\* happens to its write permission between the two checks.
C37_EveryFileSubmittedOnce ==
    (op.mode = "execute" /\ sudo_password_input \notin {None, ""}) =>
        \A f \in SeqToSet(files_with_track) :
            Cardinality({k \in 1..Len(submitted) : submitted[k].file = f}) = 1

\* C31: a file that cannot be inspected never ends a bulk operation: the
\* collecting scan, the partition scan and the run skip it and go on.
C31_ProbeErrorNeverAborts ==
    ~(pc = "crashed" /\ ended = "ProbeError")

\* C32: a show cache file that cannot be read as json counts as an empty
\* cache: no lookup raises on it and no bulk operation is ended by it.
C32_CorruptCacheReadsAsEmpty ==
    ~(pc = "crashed" /\ ended = "JSONDecodeError")

\* C35: a call of update_media_info for one file of a show leaves what
\* check_if_media_info_exists returns for every differently named file of
\* the show as it was, so a lookup never returns a snapshot recorded from a
\* file of another name.
C35_LookupNeverFromAnotherFile ==
    [][\A d \in ShowDirectories : \A f, g \in FilesIn(d) :
          (f # g /\ UpdateIn(d, g))
             => check_if_media_info_exists(jsonDir', basename(d), f)
                  = check_if_media_info_exists(jsonDir, basename(d), f)]_vars

\* C36: a call of update_media_info made while working in one directory
\* leaves what check_if_media_info_exists returns for the files of every
\* other directory as it was, directories of the same base name included.
C36_DirectoriesAreIsolated ==
    [][\A a, b \in ShowDirectories : \A f \in FilesIn(a), g \in FilesIn(b) :
          (a # b /\ UpdateIn(b, g))
             => check_if_media_info_exists(jsonDir', basename(a), f)
                  = check_if_media_info_exists(jsonDir, basename(a), f)]_vars

\* C39: 'Move to previous directory' of navigate_and_browse moves to the
\* parent of the directory shown when it is chosen.
C39_PreviousIsParentOfCurrent ==
    [][BrowsePrevious =>
           nav'[Len(nav')].current_directory
             = dirname(nav[Len(nav)].current_directory)]_vars

====
